---- MODULE Spec2Model ----
(***************************************************************************)
(* nct-id.c: Nuvoton Super I/O chip identifier and HWM base locator.       *)
(* The program walks two candidate index ports; on each it asks for I/O    *)
(* permission, enters extended function mode, reads the chip id, selects   *)
(* logical device 0x0B, reads the HWM base address, prints and leaves      *)
(* extended function mode.  One step of the model is one port operation,  *)
(* one ioperm(2) call or one statement of main().                          *)
(***************************************************************************)
EXTENDS Integers, Sequences, FiniteSets, TLC

VARIABLES
    pc,          \* position of the single thread of control
    p,           \* loop counter of main()
    IDX,         \* idx_ports[p] of the current iteration
    site,        \* which sio_read_cr call of main() is running
    id_hi, id_lo, devid, ba_hi, ba_lo, base,   \* locals of main()
    perm,        \* ports the process holds ioperm(2) permission on
    chip,        \* state of the Super I/O chip behind each candidate port
    trace,       \* every outb/inb issued, in order
    out,         \* lines printed to stdout, as (IDX, devid, base)
    attempts,    \* arguments of the calls of sio_enter, in order
    entered,     \* candidates on which sio_enter returned 0
    exit_status, \* return value of main(), -1 while running
    chip0        \* the chips as they were when the process started

vars == <<pc, p, IDX, site, id_hi, id_lo, devid, ba_hi, ba_lo, base,
          perm, chip, trace, out, attempts, entered, exit_status, chip0>>

locals == <<id_hi, id_lo, devid, ba_hi, ba_lo, base>>

----------------------------------------------------------------------------
(* Program constants (decimal; the source writes them in hex).             *)

PORT_PRIMARY == 46          \* 0x2E
PORT_SECONDARY == 78        \* 0x4E
NUM_PORTS == 2              \* for (p = 0; p < 2; ++p)
ENTER_KEY == 135            \* 0x87
EXIT_KEY == 170             \* 0xAA
CR_LDN == 7                 \* 0x07, logical device select
LDN_HWM == 11               \* 0x0B, hardware monitor
CR_ID_HI == 32              \* 0x20
CR_ID_LO == 33              \* 0x21
CR_BASE_HI == 96            \* 0x60
CR_BASE_LO == 97            \* 0x61
UCHAR_MAX == 255            \* unsigned char
USHORT_MOD == 65536         \* unsigned short is 16 bits wide

idx_ports == <<PORT_PRIMARY, PORT_SECONDARY>>

Candidates == {idx_ports[i] : i \in 1..NUM_PORTS}

\* the data port taken one address too far
DataPortOffByOne(idx) == (idx + 2) % USHORT_MOD

\* idx + 1 as the unsigned short handed to outb/inb
DataPort(idx) == (idx + 1) % USHORT_MOD

----------------------------------------------------------------------------
(* Bounds of the model: the kinds of chip the environment may put behind a *)
(* candidate port.                                                         *)

NumChipKinds == 3

Byte == 0..UCHAR_MAX

\* What a chip of kind k holds in CR 0x20/0x21 (global) and in CR 0x60/0x61
\* of logical device 0x0B and of the other logical devices.
\* Kind 1 is the NCT6798D of an ASUS B550 board.
ChipKind(k) ==
    CASE k = 1 -> [id_hi |-> 212, id_lo |-> 40, hwm_hi |-> 2, hwm_lo |-> 144,
                   oth_hi |-> 3, oth_lo |-> 248]
      [] k = 2 -> [id_hi |-> 255, id_lo |-> 255, hwm_hi |-> 255, hwm_lo |-> 255,
                   oth_hi |-> 255, oth_lo |-> 255]
      [] OTHER -> [id_hi |-> (193 + 7 * k) % 256, id_lo |-> (17 * k) % 256,
                   hwm_hi |-> k % 256, hwm_lo |-> (160 + k) % 256,
                   oth_hi |-> 0, oth_lo |-> (16 * k) % 256]

\* Logical devices a chip may have selected before the program starts.
InitLDNs == {0, LDN_HWM}

GLOBAL == -1

\* Registers below 0x30 are global, the others belong to the selected device.
RegKey(ldn, reg) == IF reg < 48 THEN <<GLOBAL, reg>> ELSE <<ldn, reg>>

RegKeys == {<<GLOBAL, CR_ID_HI>>, <<GLOBAL, CR_ID_LO>>}
           \cup {<<l, r>> : l \in InitLDNs, r \in {CR_BASE_HI, CR_BASE_LO}}

RegFile(k) ==
    [key \in RegKeys |->
        LET c == ChipKind(k) IN
        CASE key = <<GLOBAL, CR_ID_HI>> -> c.id_hi
          [] key = <<GLOBAL, CR_ID_LO>> -> c.id_lo
          [] key = <<LDN_HWM, CR_BASE_HI>> -> c.hwm_hi
          [] key = <<LDN_HWM, CR_BASE_LO>> -> c.hwm_lo
          [] key[2] = CR_BASE_HI -> c.oth_hi
          [] OTHER -> c.oth_lo]

----------------------------------------------------------------------------
(* The chip: Locked until 0x87 has been written twice to its index port,   *)
(* Unlocked until 0xAA is written to it.  keys counts the 0x87 received.   *)

UNLOCKED == 2

IsUnlocked(c) == chip[c].keys = UNLOCKED

\* The candidate whose index or data port this is, 0 when there is none.
Owner(port) ==
    IF \E c \in Candidates : port \in {c, DataPort(c)}
    THEN CHOOSE c \in Candidates : port \in {c, DataPort(c)}
    ELSE 0

ChipIndexWrite(ch, val) ==
    IF ch.keys < UNLOCKED
    THEN [ch EXCEPT !.keys = IF val = ENTER_KEY THEN ch.keys + 1 ELSE 0]
    ELSE IF val = EXIT_KEY
         THEN [ch EXCEPT !.keys = 0]
         ELSE [ch EXCEPT !.index = val]

ChipDataWrite(ch, val) ==
    IF ch.keys < UNLOCKED
    THEN ch
    ELSE IF ch.index = CR_LDN
         THEN [ch EXCEPT !.ldn = val]
         ELSE IF RegKey(ch.ldn, ch.index) \in RegKeys
              THEN [ch EXCEPT !.cr[RegKey(ch.ldn, ch.index)] = val]
              ELSE ch

ChipDataRead(ch) ==
    IF ch.keys < UNLOCKED
    THEN UCHAR_MAX
    ELSE IF ch.index = CR_LDN
         THEN ch.ldn
         ELSE IF RegKey(ch.ldn, ch.index) \in RegKeys
              THEN ch.cr[RegKey(ch.ldn, ch.index)]
              ELSE UCHAR_MAX

\* One entry of the port trace; unlocked records the chip's mode when the
\* operation reached it.
TraceEntry(op, port, val) ==
    [op |-> op, port |-> port, val |-> val,
     unlocked |-> (Owner(port) # 0 /\ IsUnlocked(Owner(port)))]

----------------------------------------------------------------------------
(* Port access primitives.                                                 *)

outb_u8(port, val) ==
    /\ trace' = Append(trace, TraceEntry("outb", port, val))
    /\ chip' = IF Owner(port) = 0 THEN chip
               ELSE [chip EXCEPT ![Owner(port)] =
                        IF port = Owner(port)
                        THEN ChipIndexWrite(chip[Owner(port)], val)
                        ELSE ChipDataWrite(chip[Owner(port)], val)]

\* The byte inb(port) returns.
InbValue(port) ==
    IF Owner(port) # 0 /\ port = DataPort(Owner(port))
    THEN ChipDataRead(chip[Owner(port)])
    ELSE UCHAR_MAX

inb_u8(port) ==
    /\ trace' = Append(trace, TraceEntry("inb", port, InbValue(port)))
    /\ UNCHANGED chip

----------------------------------------------------------------------------
(* Integer arithmetic of main().                                           *)

RECURSIVE BitOr(_, _)
BitOr(a, b) ==
    IF a = 0 THEN b
    ELSE IF b = 0 THEN a
    ELSE (IF a % 2 = 1 \/ b % 2 = 1 THEN 1 ELSE 0) + 2 * BitOr(a \div 2, b \div 2)

\* the high byte shifted by 4 in place of 8
AssembleDevidShift4(hi, lo) == BitOr(hi * 16, lo)

\* unsigned int devid = ((unsigned)id_hi << 8) | id_lo;
\* An unsigned char shifted left by 8 is below 2^16: the 32-bit unsigned
\* arithmetic never wraps, so no reduction is applied.
AssembleDevid(hi, lo) == BitOr(hi * 256, lo)

\* unsigned short base = (ba_hi << 8) | ba_lo;
AssembleBase(hi, lo) == BitOr(hi * 256, lo) % USHORT_MOD

----------------------------------------------------------------------------
(* Initial state: the process holds no port permission, every chip is      *)
(* Locked, nothing has been printed.                                       *)

InitChip(k, l) == [keys |-> 0, index |-> 0, ldn |-> l, cr |-> RegFile(k)]

Init ==
    /\ pc = "for_cond"
    /\ p = 0
    /\ IDX = 0
    /\ site = "none"
    /\ id_hi = 0 /\ id_lo = 0 /\ devid = 0
    /\ ba_hi = 0 /\ ba_lo = 0 /\ base = 0
    /\ perm = {}
    /\ chip \in [Candidates -> {InitChip(k, l) : k \in 1..NumChipKinds, l \in InitLDNs}]
    /\ chip0 = chip
    /\ trace = <<>>
    /\ out = <<>>
    /\ attempts = <<>>
    /\ entered = {}
    /\ exit_status = -1

----------------------------------------------------------------------------
(* main(): the loop over the candidate ports.                              *)

\* the loop body with IDX = idx_ports[0]
ForBodyFirstPortOnly ==
    /\ pc = "for_cond"
    /\ p < NUM_PORTS
    /\ IDX' = idx_ports[1]
    /\ attempts' = Append(attempts, idx_ports[1])
    /\ pc' = "ioperm_idx"
    /\ UNCHANGED <<p, site, locals, perm, chip, trace, out, entered, exit_status,
                   chip0>>

\* for (p = 0; p < 2; ++p) { IDX = idx_ports[p]; if (sio_enter(IDX)) ...
ForBody ==
    /\ pc = "for_cond"
    /\ p < NUM_PORTS
    /\ IDX' = idx_ports[p + 1]
    /\ attempts' = Append(attempts, idx_ports[p + 1])
    /\ pc' = "ioperm_idx"
    /\ UNCHANGED <<p, site, locals, perm, chip, trace, out, entered, exit_status,
                   chip0>>

\* return 0;
MainReturn ==
    /\ pc = "for_cond"
    /\ p >= NUM_PORTS
    /\ exit_status' = 0
    /\ pc' = "done"
    /\ UNCHANGED <<p, IDX, site, locals, perm, chip, trace, out, attempts, entered,
                   chip0>>

\* ++p
ForInc ==
    /\ pc = "for_inc"
    /\ p' = p + 1
    /\ pc' = "for_cond"
    /\ UNCHANGED <<IDX, site, locals, perm, chip, trace, out, attempts, entered,
                   exit_status, chip0>>

\* the test of sio_enter's result without its continue
MainSkipFallsThrough ==
    /\ pc = "enter_failed"
    /\ site' = "id_hi"
    /\ pc' = "read_cr_outb"
    /\ UNCHANGED <<p, IDX, locals, perm, chip, trace, out, attempts, entered,
                   exit_status, chip0>>

\* return 1 in place of continue
MainSkipExitsWithFailure ==
    /\ pc = "enter_failed"
    /\ exit_status' = 1
    /\ pc' = "done"
    /\ UNCHANGED <<p, IDX, site, locals, perm, chip, trace, out, attempts, entered,
                   chip0>>

\* if (sio_enter(IDX)) { continue; }   taken when sio_enter returned -1
MainSkip ==
    /\ pc = "enter_failed"
    /\ pc' = "for_inc"
    /\ UNCHANGED <<p, IDX, site, locals, perm, chip, trace, out, attempts, entered,
                   exit_status, chip0>>

----------------------------------------------------------------------------
(* sio_enter(idx)                                                          *)

\* ioperm(idx, 1, 1): the kernel grants or refuses; || short-circuits.
SioEnterIopermIdx ==
    /\ pc = "ioperm_idx"
    /\ \E granted \in BOOLEAN :
          IF granted
          THEN /\ perm' = perm \cup {IDX}
               /\ pc' = "ioperm_data"
          ELSE /\ perm' = perm
               /\ pc' = "enter_failed"
    /\ UNCHANGED <<p, IDX, site, locals, chip, trace, out, attempts, entered,
                   exit_status, chip0>>

\* the result of ioperm(idx + 1, 1, 1) not looked at
SioEnterIopermDataIgnored ==
    /\ pc = "ioperm_data"
    /\ \E granted \in BOOLEAN :
          perm' = IF granted THEN perm \cup {IDX + 1} ELSE perm
    /\ pc' = "unlock1"
    /\ UNCHANGED <<p, IDX, site, locals, chip, trace, out, attempts, entered,
                   exit_status, chip0>>

\* ioperm(idx + 1, 1, 1)
SioEnterIopermData ==
    /\ pc = "ioperm_data"
    /\ \E granted \in BOOLEAN :
          IF granted
          THEN /\ perm' = perm \cup {IDX + 1}
               /\ pc' = "unlock1"
          ELSE /\ perm' = perm
               /\ pc' = "enter_failed"
    /\ UNCHANGED <<p, IDX, site, locals, chip, trace, out, attempts, entered,
                   exit_status, chip0>>

\* outb_u8(idx, 0x87);
SioEnterKey1 ==
    /\ pc = "unlock1"
    /\ outb_u8(IDX, ENTER_KEY)
    /\ pc' = "unlock2"
    /\ UNCHANGED <<p, IDX, site, locals, perm, out, attempts, entered, exit_status,
                   chip0>>

\* sio_enter writing the key once only
SioEnterKey2Omitted ==
    /\ pc = "unlock2"
    /\ entered' = entered \cup {IDX}
    /\ site' = "id_hi"
    /\ pc' = "read_cr_outb"
    /\ UNCHANGED <<p, IDX, locals, perm, chip, trace, out, attempts, exit_status,
                   chip0>>

\* outb_u8(idx, 0x87); return 0;   main() goes on to the first sio_read_cr
SioEnterKey2 ==
    /\ pc = "unlock2"
    /\ outb_u8(IDX, ENTER_KEY)
    /\ entered' = entered \cup {IDX}
    /\ site' = "id_hi"
    /\ pc' = "read_cr_outb"
    /\ UNCHANGED <<p, IDX, locals, perm, out, attempts, exit_status, chip0>>

----------------------------------------------------------------------------
(* sio_read_cr(idx, reg) at its four call sites                            *)

\* the identity registers asked for low byte first
SiteRegIdSwapped(s) ==
    CASE s = "id_hi" -> CR_ID_LO
      [] s = "id_lo" -> CR_ID_HI
      [] s = "ba_hi" -> CR_BASE_HI
      [] s = "ba_lo" -> CR_BASE_LO

SiteReg(s) ==
    CASE s = "id_hi" -> CR_ID_HI
      [] s = "id_lo" -> CR_ID_LO
      [] s = "ba_hi" -> CR_BASE_HI
      [] s = "ba_lo" -> CR_BASE_LO

\* outb_u8(idx, reg);
SioReadCrOutb ==
    /\ pc = "read_cr_outb"
    /\ outb_u8(IDX, SiteReg(site))
    /\ pc' = "read_cr_inb"
    /\ UNCHANGED <<p, IDX, site, locals, perm, out, attempts, entered, exit_status,
                   chip0>>

\* return inb_u8(idx + 1);   and the assignment at the call site
SioReadCrInb ==
    /\ pc = "read_cr_inb"
    /\ inb_u8(DataPort(IDX))
    /\ LET v == InbValue(DataPort(IDX)) IN
       CASE site = "id_hi" ->
              /\ id_hi' = v
              /\ site' = "id_lo"
              /\ pc' = "read_cr_outb"
              /\ UNCHANGED <<id_lo, devid, ba_hi, ba_lo, base>>
         [] site = "id_lo" ->
              /\ id_lo' = v
              /\ devid' = AssembleDevid(id_hi, v)
              /\ site' = "none"
              /\ pc' = "write_cr_index"
              /\ UNCHANGED <<id_hi, ba_hi, ba_lo, base>>
         [] site = "ba_hi" ->
              /\ ba_hi' = v
              /\ site' = "ba_lo"
              /\ pc' = "read_cr_outb"
              /\ UNCHANGED <<id_hi, id_lo, devid, ba_lo, base>>
         [] site = "ba_lo" ->
              /\ ba_lo' = v
              /\ base' = AssembleBase(ba_hi, v)
              /\ site' = "none"
              /\ pc' = "printf"
              /\ UNCHANGED <<id_hi, id_lo, devid, ba_hi>>
    /\ UNCHANGED <<p, IDX, perm, out, attempts, entered, exit_status, chip0>>

----------------------------------------------------------------------------
(* sio_write_cr(IDX, 0x07, 0x0B)                                           *)

\* sio_write_cr(IDX, 0x60, 0x0B): the wrong register number
SioWriteCrIndexWrongRegister ==
    /\ pc = "write_cr_index"
    /\ outb_u8(IDX, CR_BASE_HI)
    /\ pc' = "write_cr_data"
    /\ UNCHANGED <<p, IDX, site, locals, perm, out, attempts, entered, exit_status,
                   chip0>>

\* sio_write_cr sending the register number to the data port
SioWriteCrIndexToDataPort ==
    /\ pc = "write_cr_index"
    /\ outb_u8(DataPort(IDX), CR_LDN)
    /\ pc' = "write_cr_data"
    /\ UNCHANGED <<p, IDX, site, locals, perm, out, attempts, entered, exit_status,
                   chip0>>

\* outb_u8(idx, reg);
SioWriteCrIndex ==
    /\ pc = "write_cr_index"
    /\ outb_u8(IDX, CR_LDN)
    /\ pc' = "write_cr_data"
    /\ UNCHANGED <<p, IDX, site, locals, perm, out, attempts, entered, exit_status,
                   chip0>>

\* sio_write_cr(IDX, 0x07, 0x0A): the wrong logical device
SioWriteCrDataWrongDevice ==
    /\ pc = "write_cr_data"
    /\ outb_u8(DataPort(IDX), LDN_HWM - 1)
    /\ site' = "ba_hi"
    /\ pc' = "read_cr_outb"
    /\ UNCHANGED <<p, IDX, locals, perm, out, attempts, entered, exit_status, chip0>>

\* outb_u8(idx + 1, val);   main() goes on to read the base address
SioWriteCrData ==
    /\ pc = "write_cr_data"
    /\ outb_u8(DataPort(IDX), LDN_HWM)
    /\ site' = "ba_hi"
    /\ pc' = "read_cr_outb"
    /\ UNCHANGED <<p, IDX, locals, perm, out, attempts, entered, exit_status, chip0>>

----------------------------------------------------------------------------
(* Report and sio_exit(IDX)                                                *)

\* printf("SIO at 0x%X: DEVID=0x%04X  HWM base=0x%04X ...", IDX, devid, base);
Printf ==
    /\ pc = "printf"
    /\ out' = Append(out, <<IDX, devid, base>>)
    /\ pc' = "sio_exit"
    /\ UNCHANGED <<p, IDX, site, locals, perm, chip, trace, attempts, entered,
                   exit_status, chip0>>

\* sio_exit without the lock write
SioExitNoLock ==
    /\ pc = "sio_exit"
    /\ pc' = "for_inc"
    /\ UNCHANGED <<p, IDX, site, locals, perm, chip, trace, out, attempts, entered,
                   exit_status, chip0>>

\* sio_exit locking the primary port whatever idx is
SioExitWrongPort ==
    /\ pc = "sio_exit"
    /\ outb_u8(idx_ports[1], EXIT_KEY)
    /\ pc' = "for_inc"
    /\ UNCHANGED <<p, IDX, site, locals, perm, out, attempts, entered, exit_status,
                   chip0>>

\* sio_exit giving the two ports back with ioperm(idx, 2, 0)
SioExitReleasesPorts ==
    /\ pc = "sio_exit"
    /\ outb_u8(IDX, EXIT_KEY)
    /\ perm' = perm \ {IDX, IDX + 1}
    /\ pc' = "for_inc"
    /\ UNCHANGED <<p, IDX, site, locals, out, attempts, entered, exit_status, chip0>>

\* sio_exit writing the enter key 0x87 in place of 0xAA
SioExitWritesEnterKey ==
    /\ pc = "sio_exit"
    /\ outb_u8(IDX, ENTER_KEY)
    /\ pc' = "for_inc"
    /\ UNCHANGED <<p, IDX, site, locals, perm, out, attempts, entered, exit_status,
                   chip0>>

\* outb_u8(idx, 0xAA);   ioperm is not given back
SioExit ==
    /\ pc = "sio_exit"
    /\ outb_u8(IDX, EXIT_KEY)
    /\ pc' = "for_inc"
    /\ UNCHANGED <<p, IDX, site, locals, perm, out, attempts, entered, exit_status,
                   chip0>>

----------------------------------------------------------------------------

Next ==
    \/ ForBody
    \/ MainReturn
    \/ ForInc
    \/ MainSkip
    \/ SioEnterIopermIdx
    \/ SioEnterIopermData
    \/ SioEnterKey1
    \/ SioEnterKey2
    \/ SioReadCrOutb
    \/ SioReadCrInb
    \/ SioWriteCrIndex
    \/ SioWriteCrData
    \/ Printf
    \/ SioExit

Spec == Init /\ [][Next]_vars

----------------------------------------------------------------------------
(* The process under asynchronous termination.  main() installs no signal  *)
(* handler and registers no exit hook, so a signal whose default action is *)
(* to terminate (SIGINT, SIGTERM, SIGHUP, SIGKILL) ends the process at     *)
(* whatever statement it has reached; nothing of main() runs afterwards.   *)

Fault ==
    /\ pc \notin {"done", "killed"}
    /\ pc' = "killed"
    /\ UNCHANGED <<p, IDX, site, locals, perm, chip, trace, out, attempts, entered,
                   exit_status, chip0>>

NextFault == Next \/ Fault

SpecFault == Init /\ [][NextFault]_vars

----------------------------------------------------------------------------
(* The program under a scheduler that lets the single thread run: every    *)
(* statement is a non-blocking port access, system call or assignment.     *)

LiveSpec == Spec /\ WF_vars(Next)

----------------------------------------------------------------------------
(* The two byte-pair assemblies of main() on every pair of bytes.          *)

InitAsm ==
    /\ pc = "asm_devid"
    /\ p = 0
    /\ IDX = 0
    /\ site = "none"
    /\ id_hi \in Byte /\ id_lo \in Byte /\ devid = 0
    /\ ba_hi = id_hi /\ ba_lo = id_lo /\ base = 0
    /\ perm = {}
    /\ chip = [c \in Candidates |-> InitChip(1, 0)]
    /\ chip0 = chip
    /\ trace = <<>>
    /\ out = <<>>
    /\ attempts = <<>>
    /\ entered = {}
    /\ exit_status = -1

\* unsigned int devid = ((unsigned)id_hi << 8) | id_lo;
AsmDevid ==
    /\ pc = "asm_devid"
    /\ devid' = AssembleDevid(id_hi, id_lo)
    /\ pc' = "asm_base"
    /\ UNCHANGED <<p, IDX, site, id_hi, id_lo, ba_hi, ba_lo, base, perm, chip, trace,
                   out, attempts, entered, exit_status, chip0>>

\* unsigned short base = (ba_hi << 8) | ba_lo;
AsmBase ==
    /\ pc = "asm_base"
    /\ base' = AssembleBase(ba_hi, ba_lo)
    /\ pc' = "asm_done"
    /\ UNCHANGED <<p, IDX, site, id_hi, id_lo, devid, ba_hi, ba_lo, perm, chip, trace,
                   out, attempts, entered, exit_status, chip0>>

NextAsm == AsmDevid \/ AsmBase

SpecAsm == InitAsm /\ [][NextAsm]_vars

----------------------------------------------------------------------------
(* sio_enter(idx) directly followed by sio_exit(idx), for either candidate *)
(* port: the caller makes no register access in between.                   *)

InitPair ==
    /\ pc = "ioperm_idx"
    /\ p = 0
    /\ IDX \in Candidates
    /\ site = "none"
    /\ id_hi = 0 /\ id_lo = 0 /\ devid = 0
    /\ ba_hi = 0 /\ ba_lo = 0 /\ base = 0
    /\ perm = {}
    /\ chip \in [Candidates -> {InitChip(k, l) : k \in 1..NumChipKinds, l \in InitLDNs}]
    /\ chip0 = chip
    /\ trace = <<>>
    /\ out = <<>>
    /\ attempts = <<IDX>>
    /\ entered = {}
    /\ exit_status = -1

\* sio_enter returned 0 and the caller calls sio_exit at once.
PairCallsExit ==
    /\ pc = "read_cr_outb"
    /\ site = "id_hi"
    /\ site' = "none"
    /\ pc' = "sio_exit"
    /\ UNCHANGED <<p, IDX, locals, perm, chip, trace, out, attempts, entered,
                   exit_status, chip0>>

\* sio_enter returned -1: the caller is done.
PairGivesUp ==
    /\ pc = "enter_failed"
    /\ pc' = "pair_failed"
    /\ UNCHANGED <<p, IDX, site, locals, perm, chip, trace, out, attempts, entered,
                   exit_status, chip0>>

NextPair ==
    \/ SioEnterIopermIdx
    \/ SioEnterIopermData
    \/ SioEnterKey1
    \/ SioEnterKey2
    \/ PairCallsExit
    \/ PairGivesUp
    \/ SioExit

SpecPair == InitPair /\ [][NextPair]_vars

----------------------------------------------------------------------------
(* Reading the port trace.                                                 *)

Positions == 1..Len(trace)

\* Positions of the operations on candidate c's index or data port.
OpsOn(c) == {i \in Positions : trace[i].port \in {c, c + 1}}

IsWrite(i, port, val) ==
    trace[i].op = "outb" /\ trace[i].port = port /\ trace[i].val = val

LockWrites(c) == {i \in Positions : IsWrite(i, c, EXIT_KEY)}

\* Positions where the second of two consecutive 0x87 writes to c stands.
UnlockEnds(c) ==
    {i \in Positions : i > 1 /\ IsWrite(i - 1, c, ENTER_KEY) /\ IsWrite(i, c, ENTER_KEY)}

DataAccesses(c) == {i \in Positions : trace[i].port = c + 1}

\* The bytes read from candidate c's data port, in order.
BytesRead(c) ==
    LET Pick(e) == e.op = "inb" /\ e.port = c + 1
        sel == SelectSeq(trace, Pick)
    IN [k \in 1..Len(sel) |-> sel[k].val]

\* Candidate c stands before candidate d in idx_ports.
Before(c, d) ==
    \E i, j \in 1..NUM_PORTS : i < j /\ idx_ports[i] = c /\ idx_ports[j] = d

\* The candidates in idx_ports order on which sio_enter returned 0.
EnteredInOrder == LET In(c) == c \in entered IN SelectSeq(idx_ports, In)

Attempted == {attempts[i] : i \in 1..Len(attempts)}

\* sio_enter has returned -1 for candidate c.
EnterFailed(c) ==
    /\ c \in Attempted
    /\ c \notin entered
    /\ ~(IDX = c /\ pc \in {"ioperm_idx", "ioperm_data", "unlock1", "unlock2"})

----------------------------------------------------------------------------
(* C1: for every candidate on which sio_enter succeeded, 0xAA is written   *)
(* to its index port at most once, and exactly once by the time the        *)
(* program ends; that write comes after the candidate's two unlock writes  *)
(* and after its ten register-access operations, is the last operation on  *)
(* its port pair, and precedes every operation on a later candidate; at    *)
(* termination the chip is Locked again.                                   *)
C1_LockOncePerSession ==
    \A c \in entered :
        /\ Cardinality(LockWrites(c)) <= 1
        /\ \A i \in LockWrites(c) :
              /\ \A j \in OpsOn(c) : j <= i
              /\ \E u \in UnlockEnds(c) : u < i
              /\ Cardinality({j \in DataAccesses(c) : j < i}) = 5
              /\ Cardinality(OpsOn(c)) = 13
        /\ \A d \in Candidates : \A i \in OpsOn(d) :
              Before(c, d) => \E j \in LockWrites(c) : j < i
        /\ pc = "done" => Cardinality(LockWrites(c)) = 1 /\ ~IsUnlocked(c)

\* Both candidates were unlocked and the program has ended.
C1_Witness == pc = "done" /\ entered = Candidates /\ Len(trace) = 26

(* C2: once sio_enter has failed for a candidate, no byte is ever written  *)
(* to or read from its index or data port, nothing is printed for it, and  *)
(* the loop goes on: the program does not end before every later candidate *)
(* was attempted, and the failure itself ends nothing.                     *)
C2_FailedCandidateUntouched ==
    \A c \in Candidates :
        EnterFailed(c) =>
            /\ OpsOn(c) = {}
            /\ \A k \in 1..Len(out) : out[k][1] # c
            /\ pc = "done" => \A d \in Candidates : Before(c, d) => d \in Attempted
            /\ pc = "enter_failed" => exit_status = -1

\* The first candidate was refused on its data port, the second was probed.
C2_Witness ==
    /\ pc = "done"
    /\ EnterFailed(PORT_PRIMARY)
    /\ PORT_PRIMARY \in perm
    /\ PORT_SECONDARY \in entered

(* C3: on every way the process can end, also when a fault ends it between *)
(* the unlock writes and sio_exit, every unlock sequence of the port trace *)
(* is followed by a lock write to the same index port.                     *)
C3_ReleaseOnEveryExit ==
    pc \in {"done", "killed"} =>
        \A c \in Candidates : \A u \in UnlockEnds(c) :
            \E i \in LockWrites(c) : i > u

(* C4: every data-port access is made while the chip is Unlocked: it       *)
(* directly follows a write to the index port of the same candidate, which *)
(* the chip took as a register number, and an unlock sequence of that      *)
(* candidate stands before it with no lock write in between.               *)
C4_AccessOnlyWhileUnlocked ==
    \A c \in Candidates : \A i \in DataAccesses(c) :
        /\ trace[i].unlocked
        /\ i > 1
        /\ trace[i - 1].op = "outb" /\ trace[i - 1].port = c /\ trace[i - 1].unlocked
        /\ trace[i - 1].val \notin {EXIT_KEY}
        /\ \E u \in UnlockEnds(c) :
              /\ u < i - 1
              /\ \A j \in LockWrites(c) : ~(u < j /\ j < i)
        /\ c \in entered

\* A session on the second candidate is reading its last register.
C4_Witness ==
    /\ pc = "printf"
    /\ IDX = PORT_SECONDARY
    /\ Cardinality(DataAccesses(PORT_SECONDARY)) = 5
    /\ IsUnlocked(PORT_SECONDARY)

(* C5: sio_enter is called on the candidates in the order 0x2E, 0x4E, at   *)
(* most once each, and by the time the program ends exactly once on each,  *)
(* whatever was granted or refused on the first.                           *)
C5_EveryCandidateAttemptedOnce ==
    /\ Len(attempts) <= NUM_PORTS
    /\ \A i \in 1..Len(attempts) : attempts[i] = idx_ports[i]
    /\ pc = "done" => attempts = <<PORT_PRIMARY, PORT_SECONDARY>>
    /\ Len(attempts) = p + (IF pc \in {"for_cond", "done"} THEN 0 ELSE 1)

\* The program ended after the first candidate was refused.
C5_Witness ==
    /\ pc = "done"
    /\ EnterFailed(PORT_PRIMARY)
    /\ Len(attempts) = NUM_PORTS

\* What the chip behind candidate c held when the program started: the
\* program writes no register but the device selector.
IdentityOf(c) ==
    chip[c].cr[<<GLOBAL, CR_ID_HI>>] * 256 + chip[c].cr[<<GLOBAL, CR_ID_LO>>]

HwmBaseOf(c) ==
    chip[c].cr[<<LDN_HWM, CR_BASE_HI>>] * 256 + chip[c].cr[<<LDN_HWM, CR_BASE_LO>>]

(* C6: the lines printed are, in candidate order, one per candidate on     *)
(* which sio_enter succeeded and none for the others; each is (index port, *)
(* CR 0x20 * 256 + CR 0x21, CR 0x60 * 256 + CR 0x61 of logical device      *)
(* 0x0B).  With an NCT6798D behind 0x2E and 0x4E refused the only line is  *)
(* (0x2E, 0xD428, 0x0290).                                                 *)
C6_OneResultPerGrantedCandidate ==
    /\ Len(out) <= Len(EnteredInOrder)
    /\ \A k \in 1..Len(out) :
          out[k] = <<EnteredInOrder[k], IdentityOf(EnteredInOrder[k]),
                     HwmBaseOf(EnteredInOrder[k])>>
    /\ pc = "done" => Len(out) = Len(EnteredInOrder)
    /\ (/\ pc = "done"
        /\ entered = {PORT_PRIMARY}
        /\ chip[PORT_PRIMARY].cr = RegFile(1))
       => out = << <<46, 54312, 656>> >>

\* Scenario A: NCT6798D granted at 0x2E with another device selected at
\* start, 0x4E refused.
C6_Witness ==
    /\ pc = "done"
    /\ entered = {PORT_PRIMARY}
    /\ chip[PORT_PRIMARY].cr = RegFile(1)
    /\ Len(out) = 1
    /\ \E i \in DataAccesses(PORT_PRIMARY) : trace[i].op = "outb"

(* C7: for every pair of bytes (hi, lo), hi read first, the assembled      *)
(* identity and the assembled base address both equal hi * 256 + lo, lie   *)
(* in 0..0xFFFF and give hi and lo back; (0xD4, 0x28) gives 0xD428 and     *)
(* (0x02, 0x90) gives 0x0290.                                              *)
C7_AssemblyIsBigEndian ==
    /\ pc \in {"asm_base", "asm_done"} =>
          /\ devid = id_hi * 256 + id_lo
          /\ devid \in 0..65535
          /\ devid \div 256 = id_hi /\ devid % 256 = id_lo
          /\ (id_hi = 212 /\ id_lo = 40) => devid = 54312
          /\ (id_hi = 2 /\ id_lo = 144) => devid = 656
    /\ pc = "asm_done" =>
          /\ base = ba_hi * 256 + ba_lo
          /\ base \in 0..65535
          /\ base \div 256 = ba_hi /\ base % 256 = ba_lo
          /\ (ba_hi = 212 /\ ba_lo = 40) => base = 54312
          /\ (ba_hi = 2 /\ ba_lo = 144) => base = 656

\* Both values were assembled from (0xD4, 0x28).
C7_Witness == pc = "asm_done" /\ id_hi = 212 /\ id_lo = 40 /\ devid = 54312

(* C8: whatever is granted or refused, the program reaches the end of      *)
(* main() with exit status 0 and stays there, it never takes another exit  *)
(* status, and when both candidates were refused it has printed nothing    *)
(* and touched no port.                                                    *)
C8_TerminatesWithStatusZero ==
    /\ <>[](pc = "done" /\ exit_status = 0)
    /\ [](exit_status \in {-1, 0})
    /\ []((pc = "done" /\ entered = {}) => (out = <<>> /\ trace = <<>>))

\* Scenario B: the program ended with both candidates refused.
C8_Witness ==
    /\ pc = "done"
    /\ exit_status = 0
    /\ entered = {}
    /\ Attempted = Candidates

(* C9: at most one candidate is Unlocked at any time; every port operation *)
(* on the 0x2E pair precedes every port operation on the 0x4E pair; and    *)
(* when both were granted two lines are printed, each assembled from the   *)
(* four bytes read from its own candidate's data port.                     *)
C9_SessionsDoNotInterleave ==
    /\ Cardinality({c \in Candidates : IsUnlocked(c)}) <= 1
    /\ \A i \in OpsOn(PORT_PRIMARY) : \A j \in OpsOn(PORT_SECONDARY) : i < j
    /\ \A i \in Positions : trace[i].port \in {c + d : c \in Candidates, d \in {0, 1}}
    /\ (pc = "done" /\ entered = Candidates) =>
          /\ Len(out) = NUM_PORTS
          /\ \A k \in 1..NUM_PORTS :
                LET c == idx_ports[k]
                    b == BytesRead(c)
                IN /\ Len(b) = 4
                   /\ out[k] = <<c, b[1] * 256 + b[2], b[3] * 256 + b[4]>>

\* Scenario C: both granted, the two chips of different kinds.
C9_Witness ==
    /\ pc = "done"
    /\ entered = Candidates
    /\ chip[PORT_PRIMARY].cr # chip[PORT_SECONDARY].cr
    /\ Len(out) = 2
    /\ out[1][2] # out[2][2]

\* The ports of candidate c.
PortPair(c) == {c, c + 1}

(* C10 as stated: the permission obtained by a successful sio_enter is     *)
(* held only within that candidate's iteration: once the iteration is over *)
(* (the loop is back at its test, is on another candidate, or has ended)   *)
(* the process holds neither port of the candidate.                        *)
C10_PermissionScopedToIteration ==
    \A c \in entered :
        (pc \in {"for_cond", "done"} \/ IDX # c) => perm \cap PortPair(c) = {}

(* C10 amended: the program never gives port permission back.  The set of  *)
(* ports it holds only grows, holds both ports of every candidate whose    *)
(* sio_enter succeeded and no port of a candidate not yet attempted; so    *)
(* 0x2E/0x2F stay held while the loop is on 0x4E and after it.             *)
C10_PermissionHeldUntilExit ==
    /\ [][perm \subseteq perm']_vars
    /\ [](\A c \in entered : PortPair(c) \subseteq perm)
    /\ [](\A c \in Candidates : c \notin Attempted => perm \cap PortPair(c) = {})
    /\ []((pc = "done" /\ PORT_PRIMARY \in entered) => PortPair(PORT_PRIMARY) \subseteq perm)

\* The loop is on 0x4E and the process still holds 0x2E and 0x2F.
C10_Witness ==
    /\ IDX = PORT_SECONDARY
    /\ pc = "sio_exit"
    /\ PortPair(PORT_PRIMARY) \subseteq perm
    /\ ~IsUnlocked(PORT_PRIMARY)

\* The port trace without the bytes read and without the chip's mode.
Calls ==
    [i \in Positions |->
        <<trace[i].op, trace[i].port,
          IF trace[i].op = "outb" THEN trace[i].val ELSE -1>>]

(* C11: sio_enter directly followed by sio_exit leaves every chip as it    *)
(* was before (Locked, same selected device, same latched index, same      *)
(* register contents), and the only port operations are 0x87, 0x87 and     *)
(* 0xAA written to the index port; when sio_enter fails there is no port   *)
(* operation at all and the chips are as before.                           *)
C11_EnterExitLeavesChipAsBefore ==
    /\ pc = "for_inc" =>
          /\ chip = chip0
          /\ \A c \in Candidates : ~IsUnlocked(c)
          /\ Calls = << <<"outb", IDX, ENTER_KEY>>, <<"outb", IDX, ENTER_KEY>>,
                        <<"outb", IDX, EXIT_KEY>> >>
    /\ pc = "pair_failed" => chip = chip0 /\ trace = <<>>

\* The pair ran on the secondary port of a chip with device 0x0B selected.
C11_Witness ==
    /\ pc = "for_inc"
    /\ IDX = PORT_SECONDARY
    /\ IDX \in entered
    /\ chip0[IDX].ldn = LDN_HWM
    /\ Len(trace) = 3

\* Positions of the reads of register reg of candidate c: an inb on the data
\* port directly after reg was written to the index port.
ReadsOf(c, reg) ==
    {i \in DataAccesses(c) : i > 1 /\ trace[i].op = "inb" /\ IsWrite(i - 1, c, reg)}

\* Positions of the writes through candidate c's data port.
DataWrites(c) == {i \in DataAccesses(c) : trace[i].op = "outb"}

\* A line was printed for candidate c.
HasLine(c) == \E k \in 1..Len(out) : out[k][1] = c

(* C12: in every successful session register 0x20 is read, then 0x21,     *)
(* then 0x0B is written to register 0x07 (once), then 0x60 is read, then  *)
(* 0x61, then the line is printed, then 0xAA is written: each register is *)
(* read at most once, no base-address read precedes the selector write,   *)
(* no identity read follows it, nothing is printed before the 0x61 read   *)
(* and the lock write comes after the print.                              *)
C12_SessionStepsInOrder ==
    \A c \in entered :
        LET idHi == ReadsOf(c, CR_ID_HI)
            idLo == ReadsOf(c, CR_ID_LO)
            sel == DataWrites(c)
            baHi == ReadsOf(c, CR_BASE_HI)
            baLo == ReadsOf(c, CR_BASE_LO)
        IN /\ \A S \in {idHi, idLo, sel, baHi, baLo} : Cardinality(S) <= 1
           /\ DataAccesses(c) = idHi \cup idLo \cup sel \cup baHi \cup baLo
           /\ \A i \in sel : IsWrite(i - 1, c, CR_LDN) /\ trace[i].val = LDN_HWM
           /\ \A i \in idLo : \E j \in idHi : j < i
           /\ \A i \in sel : \E j \in idLo : j < i
           /\ \A i \in baHi : \E j \in sel : j < i
           /\ \A i \in baLo : \E j \in baHi : j < i
           /\ \A i \in idHi \cup idLo : \A j \in sel : i < j
           /\ \A i \in baHi \cup baLo : \A j \in sel : j < i
           /\ HasLine(c) => baLo # {}
           /\ \A i \in LockWrites(c) :
                 /\ HasLine(c)
                 /\ \A j \in DataAccesses(c) : j < i
           /\ (pc = "printf" /\ IDX = c) => (~HasLine(c) /\ baLo # {})
           /\ (pc = "sio_exit" /\ IDX = c) => (HasLine(c) /\ LockWrites(c) = {})

\* The second session has printed its line and is about to release.
C12_Witness ==
    /\ pc = "sio_exit"
    /\ IDX = PORT_SECONDARY
    /\ HasLine(PORT_SECONDARY)
    /\ ReadsOf(PORT_SECONDARY, CR_BASE_LO) # {}
    /\ LockWrites(PORT_SECONDARY) = {}

\* The port operations of a whole session on index port P.
SessionCalls(P) ==
    << <<"outb", P, 135>>, <<"outb", P, 135>>,
       <<"outb", P, 32>>, <<"inb", P + 1, -1>>,
       <<"outb", P, 33>>, <<"inb", P + 1, -1>>,
       <<"outb", P, 7>>, <<"outb", P + 1, 11>>,
       <<"outb", P, 96>>, <<"inb", P + 1, -1>>,
       <<"outb", P, 97>>, <<"inb", P + 1, -1>>,
       <<"outb", P, 170>> >>

\* The operations of Calls that are on candidate c's port pair.
CallsOn(c) == LET On(e) == e[2] \in {c, c + 1} IN SelectSeq(Calls, On)

IsPrefix(a, b) == Len(a) <= Len(b) /\ \A i \in 1..Len(a) : a[i] = b[i]

\* Candidate c's iteration of the loop is over.
IterationOver(c) ==
    c \in Attempted /\ (IDX # c \/ pc \in {"for_inc", "for_cond", "done"})

SessionOpenAt(c, i) ==
    \E u \in UnlockEnds(c) :
        u < i /\ \A j \in LockWrites(c) : ~(u < j /\ j < i)

\* The operation at position i is a data-port access: a read, or a write to
\* a port that is no candidate's index port.
IsDataAccess(i) == trace[i].op = "inb" \/ trace[i].port \notin Candidates

C15_OnlySelectorIsWritten ==
    \A c \in Candidates :
        /\ \A i \in DataWrites(c) :
              /\ trace[i].val = 11
              /\ i > 1
              /\ IsWrite(i - 1, c, 7)
        /\ Cardinality(DataWrites(c)) <= 1
        /\ (c \in entered /\ IterationOver(c)) => Cardinality(DataWrites(c)) = 1
        /\ c \notin entered => DataWrites(c) = {}
        /\ chip[c].cr = chip0[c].cr
        /\ DataWrites(c) = {} => chip[c].ldn = chip0[c].ldn
        /\ DataWrites(c) # {} => chip[c].ldn = 11
        /\ LockWrites(c) # {} => (chip[c].ldn = 11 /\ ~IsUnlocked(c))

\* The program ended; the chip at 0x2E had device 0 selected at start and
\* is left Locked with device 0x0B selected.
C15_Witness ==
    /\ pc = "done"
    /\ PORT_PRIMARY \in entered
    /\ chip0[PORT_PRIMARY].ldn = 0
    /\ chip[PORT_PRIMARY].ldn = 11
    /\ ~IsUnlocked(PORT_PRIMARY)
    /\ PORT_SECONDARY \notin entered

(* C16 as stated: sio_enter succeeds only with permission on both ports,  *)
(* and once it has failed the process holds permission on neither port of *)
(* that candidate.                                                        *)
C16_AcquireAllOrNothing ==
    \A c \in Candidates :
        /\ c \in entered => PortPair(c) \subseteq perm
        /\ EnterFailed(c) => perm \cap PortPair(c) = {}

(* C16 amended: sio_enter succeeds only with permission on both ports;    *)
(* once it has failed no port operation was issued on the candidate and   *)
(* the process does not hold its data port; it holds neither port when    *)
(* the index port was refused, and keeps the index port when the index    *)
(* port was granted and the data port refused.                            *)
C16_AcquireKeepsGrantedIndexPort ==
    /\ [](\A c \in entered : PortPair(c) \subseteq perm)
    /\ [](\A c \in Candidates :
            EnterFailed(c) => (c + 1 \notin perm /\ OpsOn(c) = {}))
    /\ [][(pc = "ioperm_idx" /\ pc' = "enter_failed")
            => perm' \cap PortPair(IDX) = {}]_vars
    /\ [][(pc = "ioperm_data" /\ pc' = "enter_failed")
            => perm' \cap PortPair(IDX) = {IDX}]_vars

\* sio_enter failed on 0x4E with 0x4E granted and 0x4F refused; the process
\* ended still holding 0x4E.
C16_Witness ==
    /\ pc = "done"
    /\ EnterFailed(PORT_SECONDARY)
    /\ perm \cap PortPair(PORT_SECONDARY) = {PORT_SECONDARY}

====
